---- MODULE Spec2Model ----
(***************************************************************************)
(* Call-center pipeline of sharathp/call_sumarizer_agents.                 *)
(*                                                                         *)
(* One process_call run of CallCenterWorkflow, in both orchestrators of    *)
(* the repository (workflow.py and workflow_refactored.py), driving the    *)
(* transcription, summarization and quality-scoring agents.  Every graph   *)
(* node and every conditional edge of the LangGraph state graph is one     *)
(* action; the AgentState object is threaded through them unchanged, as    *)
(* the orchestrators assume.                                               *)
(*                                                                         *)
(* Optional[X] values are sequences of length at most one: None is << >>   *)
(* and a present value x is <<x>>.                                         *)
(***************************************************************************)
EXTENDS Integers, Sequences, FiniteSets, TLC

VARIABLES
    variant,          \* which orchestrator runs: "workflow" | "refactored"
    cfg_max_retries,  \* config.model.max_retries (read by workflow_refactored)
    openai_client,    \* TranscriptionAgent.openai_client is configured
    input_type,       \* CallInput.input_type
    content,          \* CallInput.content
    pc,               \* position of the process_call run
    transcript_text,  \* AgentState.transcript_text     (Optional[str])
    speakers,         \* AgentState.speakers            (list of segments)
    summary,          \* AgentState.summary             (Optional[CallSummary])
    quality_score,    \* AgentState.quality_score       (Optional[QualityScore])
    errors,           \* AgentState.errors              (list of records)
    retry_counts,     \* AgentState.retry_counts        (dict agent -> int)
    result,           \* the ProcessingResult returned  (Optional)
    invocations,      \* history: number of process() calls per agent
    ext_calls,        \* history: outbound calls issued by the last invocation
    tmp_files,        \* temporary files the last transcription invocation
                      \* created and left on disk, by the step that made them
    exception,        \* the exception in flight in process_call (Optional)
    llm_ok,           \* history: every LLM reply so far was well-formed
    call,             \* a function of the program called on its own: its
                      \* name and arguments (Optional)
    ret,              \* what that call returned or raised (Optional)
    api_keys,         \* dashboard: both API keys are filled in
    uploaded_file,    \* dashboard: the file in st.file_uploader (Optional)
    session_state,    \* dashboard: st.session_state
    displayed,        \* dashboard: the result the last script run rendered
                      \* in the results column (Optional)
    thread_pc,        \* dashboard: position of the background thread
    result_container, \* dashboard: the dict shared by the two threads
    container_writes, \* history: number of writes to result_container
    poll,             \* dashboard: progress phase and loop index of main
    surfaced_error    \* dashboard: the error main has shown (Optional)

vars == <<variant, cfg_max_retries, openai_client, input_type, content, pc,
          transcript_text, speakers, summary, quality_score, errors,
          retry_counts, result, invocations, ext_calls, tmp_files,
          exception, llm_ok, call, ret, api_keys, uploaded_file,
          session_state, displayed, thread_pc, result_container,
          container_writes, poll, surfaced_error>>

----------------------------------------------------------------------------
(* Bounds *)

MaxCfgRetries == 2      \* config.model.max_retries ranges over 0..MaxCfgRetries

----------------------------------------------------------------------------
(* Constants of the program *)

DEFAULT_MAX_RETRIES == 2

None == << >>
Some(x) == <<x>>

AUDIO == "audio"
TRANSCRIPT == "transcript"
InputType == {AUDIO, TRANSCRIPT}

\* CallInput.content is Any: text, or the bytes of an audio file.
AudioBytes == "<bytes>"
Contents == {"", "hello world", AudioBytes}
IsStr(c) == c # AudioBytes

Agents == {"transcription", "summarization", "quality_scoring"}

\* bool(x) of an Optional[str]: None and "" are falsy.
TruthyText(t) == t # None /\ t[1] # ""
\* bool(x) of an Optional[BaseModel]: a model instance is always truthy.
TruthyOpt(o) == o # None

----------------------------------------------------------------------------
(* utils/validation.py *)

ErrorRecord(agent, error) == [agent |-> agent, error |-> error]

\* add_error with the list replaced instead of extended.
add_error_replacing(errs, agent, error) == << ErrorRecord(agent, error) >>

add_error(errs, agent, error) == Append(errs, ErrorRecord(agent, error))

\* SpeakerSegment; times in tenths of a second, confidence in tenths.
SpeakerSegment(speaker, text, start, end, confidence) ==
    [speaker |-> speaker, text |-> text, start |-> start, end |-> end,
     confidence |-> confidence]

\* The fields of AgentState an agent can touch, as one record.
AgentStateOf(tt, sp, su, qs, er, rc) ==
    [transcript_text |-> tt, speakers |-> sp, summary |-> su,
     quality_score |-> qs, errors |-> er, retry_counts |-> rc]

CurrentState ==
    AgentStateOf(transcript_text, speakers, summary, quality_score, errors,
                 retry_counts)

----------------------------------------------------------------------------
(* agents/transcription_agent.py *)

\* What the environment does to one transcription invocation:
\*   w1, w2, w3  writing the bytes to the temporary file of the diarization
\*               path, of the fallback inside it, of the fallback of process
\*   dg          the Deepgram call: "raise", or the transcript it returns
\*   segs        what _parse_speaker_segments extracts from the response
\*   fb1, fb2    the Whisper call inside the diarization path / in process
WriteOutcomes(c) == IF IsStr(c) THEN {"raise"} ELSE {"ok", "raise"}
DeepgramOutcomes == {"raise", "", "deepgram transcript"}
WhisperOutcomes == {"raise", "", "whisper transcript"}
ParsedSegments ==
    { << >>,
      << SpeakerSegment("Speaker 0", "hello", 0, 12, 9),
         SpeakerSegment("Speaker 1", "hi", 12, 20, 9) >> }

TranscriptionOutcomes(c) ==
    [w1 : WriteOutcomes(c), dg : DeepgramOutcomes, segs : ParsedSegments,
     w2 : WriteOutcomes(c), fb1 : WhisperOutcomes,
     w3 : WriteOutcomes(c), fb2 : WhisperOutcomes]

\* _fallback_transcribe_audio returning an empty text when the Whisper call
\* raises.
fallback_transcribe_audio_swallowing(has_client, w, fb, file) ==
    IF ~has_client
    THEN [raised |-> TRUE, text |-> "", calls |-> 0, files |-> {}]
    ELSE IF w = "raise"
    THEN [raised |-> TRUE, text |-> "", calls |-> 0, files |-> {file}]
    ELSE [raised |-> FALSE, text |-> IF fb = "raise" THEN "" ELSE fb,
          calls |-> 1, files |-> {}]

\* _fallback_transcribe_audio: the temporary file is created and written
\* before the try block; only the Whisper call is covered by the finally.
fallback_transcribe_audio(has_client, w, fb, file) ==
    IF ~has_client
    THEN [raised |-> TRUE, text |-> "", calls |-> 0, files |-> {}]
    ELSE IF w = "raise"
    THEN [raised |-> TRUE, text |-> "", calls |-> 0, files |-> {file}]
    ELSE IF fb = "raise"
    THEN [raised |-> TRUE, text |-> "", calls |-> 1, files |-> {}]
    ELSE [raised |-> FALSE, text |-> fb, calls |-> 1, files |-> {}]

\* _transcribe_with_diarization
transcribe_with_diarization(has_client, o) ==
    IF o.w1 = "raise"
    THEN [raised |-> TRUE, text |-> "", segs |-> << >>, calls |-> 0,
          files |-> {"diarization"}]
    ELSE IF o.dg # "raise"
    THEN [raised |-> FALSE, text |-> o.dg,
          segs |-> IF o.dg = "" THEN << >>
                   ELSE IF o.segs # << >> THEN o.segs
                   ELSE << SpeakerSegment("Speaker 0", o.dg, 0, 100, 9) >>,
          calls |-> 1, files |-> {}]
    ELSE IF has_client
    THEN LET f == fallback_transcribe_audio(has_client, o.w2, o.fb1,
                                            "fallback_in_diarization")
         IN  [raised |-> f.raised, text |-> f.text, segs |-> << >>,
              calls |-> 1 + f.calls, files |-> f.files]
    ELSE [raised |-> TRUE, text |-> "", segs |-> << >>, calls |-> 1,
          files |-> {}]

\* TranscriptionAgent.process without the copy of a text input.
TranscriptionProcess_no_passthrough(st, in_type, c, has_client, o) ==
    IF in_type # AUDIO
    THEN [state |-> st, raised |-> FALSE, calls |-> 0, files |-> {}]
    ELSE LET d == transcribe_with_diarization(has_client, o)
         IN  [state |-> [st EXCEPT !.transcript_text = Some(d.text),
                                   !.speakers = d.segs],
              raised |-> FALSE, calls |-> d.calls, files |-> d.files]

\* TranscriptionAgent.process; it never raises.
TranscriptionProcess(st, in_type, c, has_client, o) ==
    IF in_type # AUDIO
    THEN [state |-> IF IsStr(c)
                    THEN [st EXCEPT !.transcript_text = Some(c)]
                    ELSE st,
          raised |-> FALSE, calls |-> 0, files |-> {}]
    ELSE LET d == transcribe_with_diarization(has_client, o)
         IN  IF ~d.raised
             THEN [state |-> [st EXCEPT !.transcript_text = Some(d.text),
                                        !.speakers = d.segs],
                   raised |-> FALSE, calls |-> d.calls, files |-> d.files]
             ELSE LET e1 == add_error(st.errors, "transcription",
                                      "diarization failed")
                  IN  IF ~has_client
                      THEN [state |-> [st EXCEPT !.errors = e1],
                            raised |-> FALSE, calls |-> d.calls,
                            files |-> d.files]
                      ELSE LET f == fallback_transcribe_audio(
                                        has_client, o.w3, o.fb2,
                                        "fallback_in_process")
                           IN  [state |->
                                  IF ~f.raised
                                  THEN [st EXCEPT
                                          !.errors = e1,
                                          !.transcript_text = Some(f.text)]
                                  ELSE [st EXCEPT
                                          !.errors = add_error(e1,
                                             "transcription_fallback",
                                             "fallback failed")],
                                raised |-> FALSE,
                                calls |-> d.calls + f.calls,
                                files |-> d.files \cup f.files]

----------------------------------------------------------------------------
(* agents/base_agent.py and agents/summarization_agent.py *)

\* The attributes BaseAgent defines.
BaseAgentAttrs == {"agent_name", "logger", "process", "handle_error",
                   "log_success"}

\* The attributes of a SummarizationAgent instance: the class is declared
\* without a base class, so it has its own methods and nothing of BaseAgent.
SummarizationAgentAttrs ==
    {"model_provider", "llm", "process", "_generate_summary",
     "_generate_summary_with_speakers", "_format_speaker_conversation",
     "_analyze_conversation_flow"}

\* The reply of one LLM call.
LLMOutcomes == {"ok", "bad_json", "bad_schema", "raise"}
SummaryOutcomes == [llm1 : LLMOutcomes, llm2 : LLMOutcomes]

LLMSummary ==
    [summary |-> "summary of the call", sentiment |-> "positive",
     outcome |-> "resolved"]
FallbackSummary ==
    [summary |-> "Call transcript processed.", sentiment |-> "neutral",
     outcome |-> "unresolved"]

\* _generate_summary: every failure is replaced by the fixed summary.
generate_summary(llm) ==
    [raised |-> FALSE,
     value |-> IF llm = "ok" THEN LLMSummary ELSE FallbackSummary,
     calls |-> 1]

\* _generate_summary_with_speakers: transcript_fallback[:500] is evaluated
\* before the try block and raises TypeError on None.
generate_summary_with_speakers(tt, o) ==
    IF tt = None
    THEN [raised |-> TRUE, value |-> FallbackSummary, calls |-> 0]
    ELSE IF o.llm1 = "ok"
    THEN [raised |-> FALSE, value |-> LLMSummary, calls |-> 1]
    ELSE LET g == generate_summary(o.llm2)
         IN  [raised |-> FALSE, value |-> g.value, calls |-> 1 + g.calls]

\* SummarizationAgent.process.  After the summary is computed the method
\* calls self.log_success before assigning state.summary, and its except
\* clause calls self.handle_error: a missing attribute raises AttributeError.
SummarizationProcess(st, o) ==
    IF ~TruthyText(st.transcript_text) /\ st.speakers = << >>
    THEN [state |-> [st EXCEPT !.errors =
                        add_error(@, "summarization",
                                  "No transcript or speaker data available")],
          raised |-> FALSE, calls |-> 0]
    ELSE LET g == IF st.speakers # << >>
                  THEN generate_summary_with_speakers(st.transcript_text, o)
                  ELSE generate_summary(o.llm1)
             in_try_raised == g.raised \/ "log_success" \notin SummarizationAgentAttrs
         IN  IF ~in_try_raised
             THEN [state |-> [st EXCEPT !.summary = Some(g.value)],
                   raised |-> FALSE, calls |-> g.calls]
             ELSE IF "handle_error" \in SummarizationAgentAttrs
             THEN [state |-> [st EXCEPT !.errors =
                                 add_error(@, "summarization",
                                           "Summarization failed")],
                   raised |-> FALSE, calls |-> g.calls]
             ELSE [state |-> st, raised |-> TRUE, calls |-> g.calls]

----------------------------------------------------------------------------
(* agents/quality_score_agent.py *)

\* Scores in tenths: 10 is 1.0 and 100 is 10.0.
ScoreMin == 10
ScoreMax == 100

\* The reply of one LLM call: kind "raise" (the call raised), "bad_json"
\* (text that json.loads rejects) or "json" (an object with three scores).
ScoreReply(k, t, p, r) ==
    [kind |-> k, tone_score |-> t, professionalism_score |-> p,
     resolution_score |-> r]

QualityLLMOutcomes ==
    { ScoreReply("raise", 0, 0, 0), ScoreReply("bad_json", 0, 0, 0),
      ScoreReply("json", 10, 10, 10), ScoreReply("json", 100, 100, 100),
      ScoreReply("json", 80, 75, 90), ScoreReply("json", 5, 80, 80),
      ScoreReply("json", 80, 105, 80), ScoreReply("json", 80, 80, 0) }
QualityOutcomes == [llm1 : QualityLLMOutcomes, llm2 : QualityLLMOutcomes]

\* QualityScore without the upper bound on the scores.
QualityScoreValid_without_upper_bound(r) ==
    /\ r.tone_score >= ScoreMin
    /\ r.professionalism_score >= ScoreMin
    /\ r.resolution_score >= ScoreMin

\* QualityScore(**quality_dict): Field(ge=1.0, le=10.0) on each score.
QualityScoreValid(r) ==
    /\ r.tone_score >= ScoreMin /\ r.tone_score <= ScoreMax
    /\ r.professionalism_score >= ScoreMin
    /\ r.professionalism_score <= ScoreMax
    /\ r.resolution_score >= ScoreMin /\ r.resolution_score <= ScoreMax

\* QualityScore as attached to the state.
QualityScoreOf(t, p, r) ==
    [tone_score |-> t, professionalism_score |-> p, resolution_score |-> r]

FallbackScore == QualityScoreOf(50, 50, 50)

\* One LLM exchange followed by json.loads and QualityScore(**dict).
QualityReplyAccepted(llm) ==
    /\ llm.kind = "json"
    /\ QualityScoreValid(llm)

ScoreFromReply(llm) ==
    QualityScoreOf(llm.tone_score, llm.professionalism_score,
                   llm.resolution_score)

\* _evaluate_quality: every failure is replaced by the fixed score.
evaluate_quality(llm) ==
    [raised |-> FALSE,
     value |-> IF QualityReplyAccepted(llm) THEN ScoreFromReply(llm)
               ELSE FallbackScore,
     calls |-> 1]

\* _evaluate_quality_with_speakers: transcript_fallback[:500] as above.
evaluate_quality_with_speakers(tt, o) ==
    IF tt = None
    THEN [raised |-> TRUE, value |-> FallbackScore, calls |-> 0]
    ELSE IF QualityReplyAccepted(o.llm1)
    THEN [raised |-> FALSE, value |-> ScoreFromReply(o.llm1), calls |-> 1]
    ELSE LET g == evaluate_quality(o.llm2)
         IN  [raised |-> FALSE, value |-> g.value, calls |-> 1 + g.calls]

\* QualityScoringAgent.process without the test for missing data.
QualityProcess_without_data_check(st, o) ==
    LET g == IF st.speakers # << >>
             THEN evaluate_quality_with_speakers(st.transcript_text, o)
             ELSE evaluate_quality(o.llm1)
    IN  [state |-> [st EXCEPT !.quality_score = Some(g.value)],
         raised |-> FALSE, calls |-> g.calls]

\* QualityScoringAgent.process; it never raises.
QualityProcess(st, o) ==
    IF ~TruthyText(st.transcript_text) /\ st.speakers = << >>
    THEN [state |-> [st EXCEPT !.errors =
                        add_error(@, "quality_scoring",
                                  "No transcript or speaker data available")],
          raised |-> FALSE, calls |-> 0]
    ELSE LET g == IF st.speakers # << >>
                  THEN evaluate_quality_with_speakers(st.transcript_text, o)
                  ELSE evaluate_quality(o.llm1)
         IN  IF ~g.raised
             THEN [state |-> [st EXCEPT !.quality_score = Some(g.value)],
                   raised |-> FALSE, calls |-> g.calls]
             ELSE [state |-> [st EXCEPT !.errors =
                                 add_error(@, "quality_scoring",
                                           "TypeError")],
                   raised |-> FALSE, calls |-> g.calls]

----------------------------------------------------------------------------
(* agents/summarization_agent_refactored.py and                            *)
(* agents/quality_score_agent_refactored.py, the agents that               *)
(* workflow_refactored.py drives.  An invocation with data either attaches *)
(* its output, or records an error under the agent's name, or lets an      *)
(* exception escape process.                                               *)

RefactoredOutcomes == {"ok", "fail", "raise"}

RefactoredSummarizationProcess(st, o) ==
    IF ~TruthyText(st.transcript_text) /\ st.speakers = << >>
    THEN [state |-> [st EXCEPT !.errors =
                        add_error(@, "summarization", "no data available")],
          raised |-> FALSE, calls |-> 0, files |-> {}]
    ELSE IF o = "ok"
    THEN [state |-> [st EXCEPT !.summary = Some(LLMSummary)],
          raised |-> FALSE, calls |-> 1, files |-> {}]
    ELSE IF o = "fail"
    THEN [state |-> [st EXCEPT !.errors =
                        add_error(@, "summarization", "Summarization failed")],
          raised |-> FALSE, calls |-> 1, files |-> {}]
    ELSE [state |-> st, raised |-> TRUE, calls |-> 1,
          files |-> {}]

RefactoredQualityProcess(st, o) ==
    IF ~TruthyText(st.transcript_text) /\ st.speakers = << >>
    THEN [state |-> [st EXCEPT !.errors =
                        add_error(@, "quality_scoring", "no data available")],
          raised |-> FALSE, calls |-> 0, files |-> {}]
    ELSE IF o = "ok"
    THEN [state |-> [st EXCEPT !.quality_score =
                        Some(QualityScoreOf(80, 75, 90))],
          raised |-> FALSE, calls |-> 1, files |-> {}]
    ELSE IF o = "fail"
    THEN [state |-> [st EXCEPT !.errors =
                        add_error(@, "quality_scoring",
                                  "Quality scoring failed")],
          raised |-> FALSE, calls |-> 1, files |-> {}]
    ELSE [state |-> st, raised |-> TRUE, calls |-> 1,
          files |-> {}]

----------------------------------------------------------------------------
(* workflow.py *)

\* dict.get(key, 0) and dict[key] = value on retry_counts.
DictGet(d, k) == IF k \in DOMAIN d THEN d[k] ELSE 0
DictSet(d, k, v) == [x \in (DOMAIN d) \cup {k} |-> IF x = k THEN v ELSE d[x]]

\* The count of the errors of every agent.
AgentErrorCount_of_all_agents(errs, agent_name) == Len(errs)

\* len([e for e in state.errors if e["agent"] == agent_name])
AgentErrorCount(errs, agent_name) ==
    Cardinality({i \in DOMAIN errs : errs[i].agent = agent_name})

\* The node functions: an exception out of process becomes an error record.
run_transcription(st, in_type, c, has_client, o) ==
    LET p == TranscriptionProcess(st, in_type, c, has_client, o)
    IN  [p EXCEPT !.state = IF p.raised
                            THEN [st EXCEPT !.errors =
                                     add_error(@, "transcription", "exception")]
                            ELSE p.state,
                  !.raised = FALSE]

\* _run_summarization recording the exception of the agent twice.
run_summarization_recording_twice(st, o) ==
    LET p == SummarizationProcess(st, o)
    IN  [p EXCEPT !.state = IF p.raised
                            THEN [st EXCEPT !.errors =
                                     add_error(add_error(@, "summarization",
                                                         "exception"),
                                               "summarization", "exception")]
                            ELSE p.state,
                  !.raised = FALSE]

run_summarization(st, o) ==
    LET p == SummarizationProcess(st, o)
    IN  [p EXCEPT !.state = IF p.raised
                            THEN [st EXCEPT !.errors =
                                     add_error(@, "summarization", "exception")]
                            ELSE p.state,
                  !.raised = FALSE]

run_quality_scoring(st, o) ==
    LET p == QualityProcess(st, o)
    IN  [p EXCEPT !.state = IF p.raised
                            THEN [st EXCEPT !.errors =
                                     add_error(@, "quality_scoring",
                                               "exception")]
                            ELSE p.state,
                  !.raised = FALSE]

\* _should_retry without the test for a new error.
should_retry_without_new_error_test(st, agent_name, max_retries) ==
    LET current_retries == DictGet(st.retry_counts, agent_name)
    IN  IF AgentErrorCount(st.errors, agent_name) > 0
           /\ current_retries < max_retries
        THEN [retry |-> TRUE,
              state |-> [st EXCEPT !.retry_counts =
                            DictSet(@, agent_name, current_retries + 1)]]
        ELSE [retry |-> FALSE, state |-> st]

\* CallCenterWorkflow._should_retry of workflow.py
should_retry(st, agent_name, max_retries) ==
    LET current_retries == DictGet(st.retry_counts, agent_name)
        has_new_error == AgentErrorCount(st.errors, agent_name)
                            > current_retries
    IN  IF has_new_error /\ current_retries < max_retries
        THEN [retry |-> TRUE,
              state |-> [st EXCEPT !.retry_counts =
                            DictSet(@, agent_name, current_retries + 1)]]
        ELSE [retry |-> FALSE, state |-> st]

\* _route_after_transcription without the test of the input type.
route_after_transcription_text_only(st, in_type) ==
    LET r == should_retry(st, "transcription", 2)
    IN  IF r.retry THEN [route |-> "retry", state |-> r.state]
        ELSE IF TruthyText(st.transcript_text)
        THEN [route |-> "continue", state |-> r.state]
        ELSE [route |-> "end", state |-> r.state]

route_after_transcription(st, in_type) ==
    LET r == should_retry(st, "transcription", 2)
    IN  IF r.retry THEN [route |-> "retry", state |-> r.state]
        ELSE IF TruthyText(st.transcript_text) \/ in_type = TRANSCRIPT
        THEN [route |-> "continue", state |-> r.state]
        ELSE [route |-> "end", state |-> r.state]

\* _route_after_summarization advancing whenever no retry is due.
route_after_summarization_always_continue(st) ==
    LET r == should_retry(st, "summarization", 2)
    IN  IF r.retry THEN [route |-> "retry", state |-> r.state]
        ELSE [route |-> "continue", state |-> r.state]

route_after_summarization(st) ==
    LET r == should_retry(st, "summarization", 2)
    IN  IF r.retry THEN [route |-> "retry", state |-> r.state]
        ELSE IF TruthyOpt(st.summary)
        THEN [route |-> "continue", state |-> r.state]
        ELSE [route |-> "end", state |-> r.state]

route_after_quality_scoring(st) ==
    LET r == should_retry(st, "quality_scoring", 2)
    IN  IF r.retry THEN [route |-> "retry", state |-> r.state]
        ELSE [route |-> "end", state |-> r.state]

ProcessingResult(call_id, status, st) ==
    [call_id |-> call_id, status |-> status,
     transcript_text |-> st.transcript_text, speakers |-> st.speakers,
     summary |-> st.summary, quality_score |-> st.quality_score,
     errors |-> st.errors]

\* The status with the errors list left out of the success test.
determine_status_workflow_ignoring_errors(st) ==
    IF TruthyOpt(st.summary) /\ TruthyOpt(st.quality_score)
    THEN "success"
    ELSE IF TruthyOpt(st.summary) \/ TruthyOpt(st.quality_score)
    THEN "partial"
    ELSE "failed"

\* process_call of workflow.py, after the graph has run: the status.
determine_status_workflow(st) ==
    IF TruthyOpt(st.summary) /\ TruthyOpt(st.quality_score)
       /\ st.errors = << >>
    THEN "success"
    ELSE IF TruthyOpt(st.summary) \/ TruthyOpt(st.quality_score)
    THEN "partial"
    ELSE "failed"

\* The exceptions that can come out of the body of process_call: the node
\* functions catch what the agents raise, so what is left is a failure of
\* the graph run itself.
WorkflowExceptions == {"GraphRecursionError"}

\* An except clause that catches WorkflowError only.
process_call_catches_workflow_error_only(exc) == exc = "WorkflowError"

\* except Exception as e: in process_call.
process_call_catches(exc) == TRUE

\* process_call of workflow.py, the except clause: the result it returns.
except_result_workflow(exc) ==
    [call_id |-> "error", status |-> "failed", transcript_text |-> None,
     speakers |-> << >>, summary |-> None, quality_score |-> None,
     errors |-> << ErrorRecord("worflow", exc) >>]

----------------------------------------------------------------------------
(* workflow_refactored.py *)

\* run_node of _run_agent
run_node(agent_name, st, in_type, c, has_client, ot, o) ==
    LET p == IF agent_name = "transcription"
             THEN TranscriptionProcess(st, in_type, c, has_client, ot)
             ELSE IF agent_name = "summarization"
             THEN RefactoredSummarizationProcess(st, o)
             ELSE RefactoredQualityProcess(st, o)
    IN  [p EXCEPT !.state = IF p.raised
                            THEN [st EXCEPT !.errors =
                                     add_error(@, agent_name, "exception")]
                            ELSE p.state,
                  !.raised = FALSE]

\* max_retries or config.model.max_retries or DEFAULT_MAX_RETRIES, where
\* max_retries is None in every call the routing makes and 0 is falsy.
effective_max_retries(cfg) ==
    IF cfg # 0 THEN cfg ELSE DEFAULT_MAX_RETRIES

\* _should_retry of workflow_refactored.py without the retry budget.
should_retry_refactored_without_budget(st, agent_name, cfg) ==
    LET agent_errors == AgentErrorCount(st.errors, agent_name)
        current_retries == DictGet(st.retry_counts, agent_name)
    IN  IF agent_errors > 0
        THEN [retry |-> TRUE,
              state |-> [st EXCEPT !.retry_counts =
                            DictSet(@, agent_name, current_retries + 1)]]
        ELSE [retry |-> FALSE, state |-> st]

\* CallCenterWorkflow._should_retry of workflow_refactored.py
should_retry_refactored(st, agent_name, cfg) ==
    LET max_retries == effective_max_retries(cfg)
        agent_errors == AgentErrorCount(st.errors, agent_name)
        current_retries == DictGet(st.retry_counts, agent_name)
    IN  IF agent_errors > 0 /\ current_retries < max_retries
        THEN [retry |-> TRUE,
              state |-> [st EXCEPT !.retry_counts =
                            DictSet(@, agent_name, current_retries + 1)]]
        ELSE [retry |-> FALSE, state |-> st]

\* The continuation test that lets every agent hand over to the next one.
check_continuation_always(st, agent_name, in_type) ==
    TRUE

check_continuation(st, agent_name, in_type) ==
    IF agent_name = "transcription"
    THEN TruthyText(st.transcript_text) \/ in_type = TRANSCRIPT
    ELSE IF agent_name = "summarization"
    THEN TruthyOpt(st.summary)
    ELSE FALSE

\* _route_agent; next_agent is "" for None.
route_agent(st, agent_name, next_agent, in_type, cfg) ==
    LET r == should_retry_refactored(st, agent_name, cfg)
    IN  IF r.retry THEN [route |-> "retry", state |-> r.state]
        ELSE IF check_continuation(st, agent_name, in_type)
                /\ next_agent # ""
        THEN [route |-> "continue", state |-> r.state]
        ELSE [route |-> "end", state |-> r.state]

\* _determine_status with the errors list left out of the success test.
determine_status_ignoring_errors(st) ==
    LET has_summary == TruthyOpt(st.summary)
        has_quality == TruthyOpt(st.quality_score)
    IN  IF has_summary /\ has_quality THEN "success"
        ELSE IF has_summary \/ has_quality THEN "partial"
        ELSE "failed"

determine_status(st) ==
    LET has_summary == TruthyOpt(st.summary)
        has_quality == TruthyOpt(st.quality_score)
        has_errors == st.errors # << >>
    IN  IF has_summary /\ has_quality /\ ~has_errors THEN "success"
        ELSE IF has_summary \/ has_quality THEN "partial"
        ELSE "failed"

except_result_refactored(exc) ==
    [call_id |-> "error", status |-> "failed", transcript_text |-> None,
     speakers |-> << >>, summary |-> None, quality_score |-> None,
     errors |-> << ErrorRecord("workflow", exc) >>]

----------------------------------------------------------------------------
(* The run of process_call *)

config == <<variant, cfg_max_retries, openai_client, input_type, content>>

\* The variables of a function called on its own and those of the dashboard
\* session: a run of process_call does not touch them.
helper_call == <<call, ret>>
\* The variables of the background processing of lines 481-595.
processing == <<thread_pc, result_container, container_writes, poll,
                surfaced_error>>
dashboard == <<api_keys, uploaded_file, session_state, displayed, processing>>

NoHelperCall == call = None /\ ret = None

\* st.session_state before main has stored anything in it; a key that is
\* absent reads as None.
EmptySessionState == [result |-> None, last_processed_file_id |-> None]

\* result_container = {"result": None, "error": None}
EmptyContainer == [result |-> None, error |-> None]

\* No processing thread has been created.
NoProcessing ==
    /\ thread_pc = "unstarted"
    /\ result_container = EmptyContainer
    /\ container_writes = 0
    /\ poll = [phase |-> 1, i |-> 0]
    /\ surfaced_error = None

NoDashboard ==
    /\ api_keys = TRUE
    /\ uploaded_file = None
    /\ session_state = EmptySessionState
    /\ displayed = None
    /\ NoProcessing

SetState(st) ==
    /\ transcript_text' = st.transcript_text
    /\ speakers' = st.speakers
    /\ summary' = st.summary
    /\ quality_score' = st.quality_score
    /\ errors' = st.errors
    /\ retry_counts' = st.retry_counts

\* AgentState(call_id=..., input_data=input_data)
InitialAgentState ==
    AgentStateOf(None, << >>, None, None, << >>, << >>)

\* The edges of the graph with a retry that starts the pipeline again.
NodeOf_restarting(route, agent_name, next_agent) ==
    IF route = "retry" THEN "transcription"
    ELSE IF route = "continue" THEN next_agent
    ELSE "end"

NodeOf(route, agent_name, next_agent) ==
    IF route = "retry" THEN agent_name
    ELSE IF route = "continue" THEN next_agent
    ELSE "end"

Init ==
    /\ variant \in {"workflow", "refactored"}
    /\ cfg_max_retries \in IF variant = "workflow" THEN {2}
                           ELSE 0 .. MaxCfgRetries
    /\ openai_client = TRUE
    /\ input_type \in InputType
    /\ content \in Contents
    /\ pc = "transcription"
    /\ transcript_text = InitialAgentState.transcript_text
    /\ speakers = InitialAgentState.speakers
    /\ summary = InitialAgentState.summary
    /\ quality_score = InitialAgentState.quality_score
    /\ errors = InitialAgentState.errors
    /\ retry_counts = InitialAgentState.retry_counts
    /\ result = None
    /\ invocations = [a \in Agents |-> 0]
    /\ ext_calls = 0
    /\ tmp_files = {}
    /\ exception = None
    /\ llm_ok = TRUE
    /\ NoHelperCall
    /\ NoDashboard

RunTranscription ==
    /\ pc = "transcription"
    /\ \E o \in TranscriptionOutcomes(content) :
          LET p == IF variant = "workflow"
                   THEN run_transcription(CurrentState, input_type, content,
                                          openai_client, o)
                   ELSE run_node("transcription", CurrentState, input_type,
                                 content, openai_client, o, "ok")
          IN  /\ SetState(p.state)
              /\ ext_calls' = p.calls
              /\ tmp_files' = p.files
    /\ invocations' = [invocations EXCEPT !["transcription"] = @ + 1]
    /\ pc' = "route_transcription"
    /\ UNCHANGED <<config, helper_call, dashboard,
                   result, exception, llm_ok>>

RunSummarization ==
    /\ pc = "summarization"
    /\ \/ /\ variant = "workflow"
          /\ \E o \in SummaryOutcomes :
                LET p == run_summarization(CurrentState, o)
                IN  /\ SetState(p.state) /\ ext_calls' = p.calls
                    /\ llm_ok' = (llm_ok /\ o.llm1 = "ok" /\ o.llm2 = "ok")
       \/ /\ variant = "refactored"
          /\ \E o \in RefactoredOutcomes :
                LET p == run_node("summarization", CurrentState, input_type,
                                  content, openai_client,
                                  CHOOSE x \in TranscriptionOutcomes(content) :
                                      TRUE, o)
                IN  /\ SetState(p.state) /\ ext_calls' = p.calls
                    /\ llm_ok' = (llm_ok /\ o = "ok")
    /\ invocations' = [invocations EXCEPT !["summarization"] = @ + 1]
    /\ pc' = "route_summarization"
    /\ UNCHANGED <<config, helper_call, dashboard,
                   result, exception, tmp_files>>

RunQualityScoring ==
    /\ pc = "quality_scoring"
    /\ \/ /\ variant = "workflow"
          /\ \E o \in QualityOutcomes :
                LET p == run_quality_scoring(CurrentState, o)
                IN  /\ SetState(p.state) /\ ext_calls' = p.calls
                    /\ llm_ok' = (llm_ok /\ QualityReplyAccepted(o.llm1)
                                       /\ QualityReplyAccepted(o.llm2))
       \/ /\ variant = "refactored"
          /\ \E o \in RefactoredOutcomes :
                LET p == run_node("quality_scoring", CurrentState, input_type,
                                  content, openai_client,
                                  CHOOSE x \in TranscriptionOutcomes(content) :
                                      TRUE, o)
                IN  /\ SetState(p.state) /\ ext_calls' = p.calls
                    /\ llm_ok' = (llm_ok /\ o = "ok")
    /\ invocations' = [invocations EXCEPT !["quality_scoring"] = @ + 1]
    /\ pc' = "route_quality_scoring"
    /\ UNCHANGED <<config, helper_call, dashboard,
                   result, exception, tmp_files>>

\* The conditional edge after a node.
Route(agent_name, next_agent) ==
    /\ pc = "route_" \o agent_name
    /\ LET r == IF variant = "refactored"
                THEN route_agent(CurrentState, agent_name, next_agent,
                                 input_type, cfg_max_retries)
                ELSE IF agent_name = "transcription"
                THEN route_after_transcription(CurrentState, input_type)
                ELSE IF agent_name = "summarization"
                THEN route_after_summarization(CurrentState)
                ELSE route_after_quality_scoring(CurrentState)
       IN  /\ SetState(r.state)
           /\ pc' = NodeOf(r.route, agent_name, next_agent)
    /\ UNCHANGED <<config, helper_call, dashboard,
                   result, exception, invocations, ext_calls,
                   tmp_files, llm_ok>>

RouteAfterTranscription == Route("transcription", "summarization")
RouteAfterSummarization == Route("summarization", "quality_scoring")
RouteAfterQualityScoring == Route("quality_scoring", "")

GraphPositions ==
    {"transcription", "route_transcription", "summarization",
     "route_summarization", "quality_scoring", "route_quality_scoring", "end"}

\* An exception comes out of graph.invoke or of AgentState(**result).
GraphRaise ==
    /\ pc \in GraphPositions
    /\ \E exc \in WorkflowExceptions : exception' = Some(exc)
    /\ pc' = "raised"
    /\ UNCHANGED <<config, helper_call, dashboard,
                   transcript_text, speakers, summary, quality_score,
                   errors, retry_counts, result, invocations, ext_calls,
                   tmp_files, llm_ok>>

\* process_call, the graph has ended: status and result.
ProcessCallReturn ==
    /\ pc = "end"
    /\ result' = Some(ProcessingResult(
                        "call",
                        IF variant = "workflow"
                        THEN determine_status_workflow(CurrentState)
                        ELSE determine_status(CurrentState),
                        CurrentState))
    /\ pc' = "returned"
    /\ UNCHANGED <<config, helper_call, dashboard,
                   transcript_text, speakers, summary, quality_score,
                   errors, retry_counts, invocations, ext_calls, tmp_files,
                   exception, llm_ok>>

\* process_call, the except clause.
ProcessCallExcept ==
    /\ pc = "raised"
    /\ IF process_call_catches(exception[1])
       THEN /\ result' = Some(IF variant = "workflow"
                              THEN except_result_workflow(exception[1])
                              ELSE except_result_refactored(exception[1]))
            /\ pc' = "returned"
       ELSE /\ result' = result
            /\ pc' = "escaped"
    /\ UNCHANGED <<config, helper_call, dashboard,
                   transcript_text, speakers, summary, quality_score,
                   errors, retry_counts, invocations, ext_calls, tmp_files,
                   exception, llm_ok>>

Next ==
    \/ RunTranscription
    \/ RouteAfterTranscription
    \/ RunSummarization
    \/ RouteAfterSummarization
    \/ RunQualityScoring
    \/ RouteAfterQualityScoring
    \/ GraphRaise
    \/ ProcessCallReturn
    \/ ProcessCallExcept

Spec == Init /\ [][Next]_vars

----------------------------------------------------------------------------
(* The status classification alone: process_call resumes at the end of the *)
(* graph run with any terminal AgentState.                                 *)

MaxStatusErrors == 2

ErrorAgentNames == Agents \cup {"transcription_fallback"}

SeqsUpTo(S, n) == UNION {[1 .. k -> S] : k \in 0 .. n}

InitStatus ==
    /\ variant \in {"workflow", "refactored"}
    /\ cfg_max_retries = DEFAULT_MAX_RETRIES
    /\ openai_client = TRUE
    /\ input_type = TRANSCRIPT
    /\ content = "hello world"
    /\ pc = "end"
    /\ transcript_text = Some("hello world")
    /\ speakers = << >>
    /\ summary \in {None, Some(LLMSummary)}
    /\ quality_score \in {None, Some(FallbackScore)}
    /\ errors \in SeqsUpTo({ErrorRecord(a, "failed") : a \in ErrorAgentNames},
                           MaxStatusErrors)
    /\ retry_counts = << >>
    /\ result = None
    /\ invocations = [a \in Agents |-> 0]
    /\ ext_calls = 0
    /\ tmp_files = {}
    /\ exception = None
    /\ llm_ok = TRUE
    /\ NoHelperCall
    /\ NoDashboard

NextStatus == ProcessCallReturn

StatusSpec == InitStatus /\ [][NextStatus]_vars

----------------------------------------------------------------------------
(* Properties *)

\* The run has returned a result built from the final state of the graph.
ReturnedNormally == pc = "returned" /\ exception = None
\* The run has returned the result of the except clause.
ReturnedAfterException == pc = "returned" /\ exception # None

\* Every invocation of the agent so far recorded an error under its name.
EveryInvocationFailed(a) ==
    invocations[a] > 0 /\ AgentErrorCount(errors, a) = invocations[a]

\* C1: no agent is invoked more than max_retries + 1 times; with the default
\* of 2, an agent all of whose invocations recorded an error has been invoked
\* exactly 3 times when the run returns, and the result carries all of its
\* error records.
C1_RetryBound ==
    /\ \A a \in Agents : invocations[a] <= cfg_max_retries + 1
    /\ (ReturnedNormally /\ cfg_max_retries = 2) =>
          \A a \in Agents :
             EveryInvocationFailed(a) =>
                /\ invocations[a] = 3
                /\ AgentErrorCount(result[1].errors, a) = 3

\* C2: retry_counts[agent] never exceeds the configured maximum, whatever
\* the maximum (0, 1, 2, ...), and a retry decision taken when the count has
\* reached the maximum does not invoke the agent again.
C2_RetryCountBounded ==
    /\ [](\A a \in Agents : DictGet(retry_counts, a) <= cfg_max_retries)
    /\ [][\A a \in Agents :
             (pc = "route_" \o a
              /\ DictGet(retry_counts, a) = cfg_max_retries) => pc' # a]_vars

\* C3: the status of a returned result is "success" exactly when summary and
\* quality score are present and there is no error, "partial" exactly when
\* one of the two is present and it is not a success, "failed" exactly when
\* neither is present.
C3_StatusClassification ==
    pc = "returned" =>
       LET r == result[1]
           has_summary == r.summary # None
           has_quality == r.quality_score # None
           is_success == has_summary /\ has_quality /\ r.errors = << >>
       IN  /\ r.status \in {"success", "partial", "failed"}
           /\ (r.status = "success") <=> is_success
           /\ (r.status = "partial") <=>
                 ((has_summary \/ has_quality) /\ ~is_success)
           /\ (r.status = "failed") <=> (~has_summary /\ ~has_quality)

\* Summary and quality score present with a non-empty errors list: partial.
C3_Witness ==
    /\ pc = "returned"
    /\ result[1].summary # None
    /\ result[1].quality_score # None
    /\ result[1].errors # << >>
    /\ result[1].status = "partial"

\* C4: no exception leaves process_call, and whenever it has returned there
\* is a ProcessingResult.
C4_AlwaysReturnsResult ==
    /\ pc # "escaped"
    /\ pc = "returned" =>
          /\ result # None
          /\ result[1].status \in {"success", "partial", "failed"}

\* An exception left the graph run after a node function had caught an
\* exception of an agent, and process_call still returned a result.
C4_Witness ==
    /\ ReturnedAfterException
    /\ result # None
    /\ \E i \in DOMAIN errors : errors[i].error = "exception"

\* C5: after an exception out of the graph run the result is failed, has
\* neither summary nor quality score, and has exactly one error record,
\* attributed to "workflow".
C5_WorkflowErrorResult ==
    ReturnedAfterException =>
       /\ result[1].status = "failed"
       /\ result[1].summary = None
       /\ result[1].quality_score = None
       /\ Len(result[1].errors) = 1
       /\ result[1].errors[1].agent = "workflow"

\* C6: workflow.py, a TRANSCRIPT input with non-empty text and well-formed
\* LLM replies on every call: the run ends with status "success", summary
\* and quality score set and no error.
C6_EndToEndSuccess ==
    (/\ variant = "workflow"
     /\ input_type = TRANSCRIPT
     /\ IsStr(content) /\ content # ""
     /\ llm_ok
     /\ ReturnedNormally) =>
        /\ result[1].status = "success"
        /\ result[1].summary # None
        /\ result[1].quality_score # None
        /\ result[1].errors = << >>

\* A step of the transcription node.
TranscriptionStep == pc = "transcription" /\ pc' = "route_transcription"

\* C7: on a TRANSCRIPT input with text content the transcription agent sets
\* transcript_text to the content, issues no external call, appends no
\* error, creates no speaker segment and leaves summary, quality_score and
\* retry_counts unchanged.
C7_TranscriptPassthrough ==
    [][(TranscriptionStep /\ input_type = TRANSCRIPT /\ IsStr(content)) =>
          /\ transcript_text' = Some(content)
          /\ ext_calls' = 0
          /\ errors' = errors
          /\ speakers' = speakers
          /\ speakers' = << >>
          /\ summary' = summary
          /\ quality_score' = quality_score
          /\ retry_counts' = retry_counts]_vars

C7_Witness ==
    /\ pc = "route_transcription"
    /\ invocations["transcription"] = 1
    /\ input_type = TRANSCRIPT
    /\ content = "hello world"
    /\ transcript_text = Some("hello world")

\* C8: for an AUDIO input, once the transcription agent has returned, no
\* temporary file created by the invocation is left on disk.
C8_TempFilesCleaned ==
    (input_type = AUDIO /\ invocations["transcription"] > 0) =>
        tmp_files = {}

IsPrefix(s, t) ==
    /\ Len(s) <= Len(t)
    /\ \A i \in 1 .. Len(s) : s[i] = t[i]

\* C9 as stated: every step keeps the existing error records, in order, and
\* may only append; the errors of the returned result are the complete list
\* accumulated during the run (no accumulated record is missing from it).
C9_ErrorsOnlyGrowOriginal ==
    /\ [][IsPrefix(errors, errors')]_vars
    /\ [](pc = "returned" => IsPrefix(errors, result[1].errors))

\* C9 as amended: every step keeps the existing error records, in order, and
\* may only append; a result built from the final state of the graph carries
\* the complete list, and the result returned after an exception out of the
\* graph run carries the single synthetic record only.
C9_ErrorsOnlyGrow ==
    /\ [][IsPrefix(errors, errors')]_vars
    /\ [](ReturnedNormally => result[1].errors = errors)
    /\ [](ReturnedAfterException => Len(result[1].errors) = 1)

\* A run that retried and returned all the records it accumulated.
C9_Witness ==
    /\ ReturnedNormally
    /\ Len(errors) >= 3
    /\ \E a \in Agents : DictGet(retry_counts, a) >= 1
    /\ result[1].errors = errors

\* C10: a routing decision after transcription that is not a retry leads to
\* summarization exactly when transcript_text is non-empty or the input is
\* a TRANSCRIPT, and to the end of the run otherwise; once the run has
\* ended no agent is invoked.
C10_RouteAfterTranscription ==
    [][/\ (pc = "route_transcription"
           /\ pc' \notin {"transcription", "raised"}) =>
             /\ (pc' = "summarization") <=>
                   (TruthyText(transcript_text) \/ input_type = TRANSCRIPT)
             /\ pc' \in {"summarization", "end"}
       /\ (pc \in {"end", "raised", "returned", "escaped"}) =>
             /\ invocations' = invocations
             /\ pc' \in {"raised", "returned", "escaped"}]_vars

\* An AUDIO run ended after transcription without any text.
C10_Witness ==
    /\ pc = "end"
    /\ input_type = AUDIO
    /\ ~TruthyText(transcript_text)
    /\ invocations["transcription"] >= 1
    /\ invocations["summarization"] = 0
    /\ invocations["quality_scoring"] = 0

\* A step of the conditional edge after the node of agent a that does not
\* send the run back to that node (no retry).
RouteStepNoRetry(a) ==
    /\ pc = "route_" \o a
    /\ pc' \in GraphPositions
    /\ pc' # a

\* C11: quality_scoring is only ever entered with state.summary present.
\* The edge after summarization, when it does not retry, goes to
\* quality_scoring if a summary was produced and ends the run otherwise; the
\* edge after quality_scoring, when it does not retry, always ends the run.
C11_QualityOnlyWithSummary ==
    /\ [](pc = "quality_scoring" => TruthyOpt(summary))
    /\ [][RouteStepNoRetry("summarization") =>
             pc' = IF TruthyOpt(summary) THEN "quality_scoring" ELSE "end"]_vars
    /\ [][RouteStepNoRetry("quality_scoring") => pc' = "end"]_vars

\* The edge after summarization has advanced the run, with a summary.
C11_Witness ==
    /\ pc = "quality_scoring"
    /\ invocations["summarization"] >= 1
    /\ invocations["quality_scoring"] = 0
    /\ TruthyOpt(summary)

----------------------------------------------------------------------------
(* _should_retry of workflow.py called on its own, on any AgentState with  *)
(* a bounded error list and bounded retry counters.                        *)

MaxRetryErrors == 3     \* length of state.errors
MaxRetryCount == 2      \* largest retry counter and largest max_retries

\* The agent names that occur in the errors and counters of these states.
RetryAgentNames == {"transcription", "summarization"}

\* The dicts from some of the names of S to 0 .. n.
DictsOver(S, n) == UNION {[D -> 0 .. n] : D \in SUBSET S}

\* Every variable of the process_call run that a call does not use.
RunIdle ==
    /\ variant = "workflow"
    /\ cfg_max_retries = DEFAULT_MAX_RETRIES
    /\ openai_client = TRUE
    /\ input_type = TRANSCRIPT
    /\ content = "hello world"
    /\ result = None
    /\ invocations = [a \in Agents |-> 0]
    /\ ext_calls = 0
    /\ tmp_files = {}
    /\ exception = None
    /\ llm_ok = TRUE

InitRetry ==
    /\ RunIdle
    /\ NoDashboard
    /\ pc = "call"
    /\ transcript_text = None
    /\ speakers = << >>
    /\ summary = None
    /\ quality_score = None
    /\ errors \in SeqsUpTo({ErrorRecord(a, "failed") : a \in RetryAgentNames},
                           MaxRetryErrors)
    /\ retry_counts \in DictsOver(RetryAgentNames, MaxRetryCount)
    /\ call \in {Some([fn |-> "_should_retry", agent_name |-> a,
                       max_retries |-> m]) :
                    a \in RetryAgentNames, m \in 0 .. MaxRetryCount}
    /\ ret = None

\* self._should_retry(state, agent_name, max_retries)
ShouldRetryCall ==
    /\ pc = "call"
    /\ LET r == should_retry(CurrentState, call[1].agent_name,
                             call[1].max_retries)
       IN  /\ SetState(r.state)
           /\ ret' = Some(r.retry)
    /\ pc' = "called"
    /\ UNCHANGED <<config, dashboard, call, result, invocations, ext_calls,
                   tmp_files, exception, llm_ok>>

NextRetry == ShouldRetryCall

RetrySpec == InitRetry /\ [][NextRetry]_vars

\* C12: _should_retry of workflow.py returns true exactly when the agent has
\* more error records than retry_counts[agent] (0 when absent) and
\* retry_counts[agent] is below max_retries; when it returns true it raises
\* retry_counts[agent] by exactly 1 and touches no other counter, when it
\* returns false retry_counts is unchanged; errors is unchanged either way.
C12_ShouldRetry ==
    [][pc = "call" =>
         LET a == call[1].agent_name
             n == DictGet(retry_counts, a)
             expected == /\ AgentErrorCount(errors, a) > n
                         /\ n < call[1].max_retries
         IN  /\ ret' = Some(expected)
             /\ errors' = errors
             /\ IF expected
                THEN /\ DOMAIN retry_counts' = DOMAIN retry_counts \cup {a}
                     /\ retry_counts'[a] = n + 1
                     /\ \A b \in DOMAIN retry_counts \ {a} :
                           retry_counts'[b] = retry_counts[b]
                ELSE retry_counts' = retry_counts]_vars

\* A call that returned true on an agent with a counter already set, and one
\* other counter present.
C12_Witness ==
    /\ pc = "called"
    /\ ret = Some(TRUE)
    /\ DOMAIN retry_counts = RetryAgentNames
    /\ retry_counts[call[1].agent_name] = 2

\* C13: in workflow_refactored.py a retry of an agent only ever follows an
\* invocation that appended a new error under the agent's name.  Every
\* invocation of an agent but its last one is followed by a retry, so each of
\* them has appended an error of its own: an agent invoked n times has at
\* least n - 1 error records.  In particular an agent that fails once and
\* then succeeds is not invoked a third time.
C13_RetryOnlyAfterNewError ==
    variant = "refactored" =>
        \A a \in Agents : invocations[a] <= AgentErrorCount(errors, a) + 1

----------------------------------------------------------------------------
(* One agent's process called on its own, on an AgentState as the pipeline *)
(* can hand it over: with or without a transcript and speaker segments,    *)
(* with or without an error of an earlier attempt, and with the Whisper    *)
(* fallback configured or not.  The call of the quality-scoring agent, the *)
(* last node of the graph, is followed by the result of process_call.      *)

AgentCalls ==
    {"TranscriptionAgent.process", "SummarizationAgent.process",
     "QualityScoringAgent.process"}

InitAgent ==
    /\ variant = "workflow"
    /\ cfg_max_retries = DEFAULT_MAX_RETRIES
    /\ openai_client \in BOOLEAN
    /\ input_type \in InputType
    /\ content \in Contents
    /\ pc = "call"
    /\ transcript_text \in {None, Some(""), Some("hello world")}
    /\ speakers \in ParsedSegments
    /\ summary = None
    /\ quality_score = None
    /\ errors \in {<< >>,
                   << ErrorRecord("transcription", "diarization failed") >>}
    /\ retry_counts = << >>
    /\ result = None
    /\ invocations = [a \in Agents |-> 0]
    /\ ext_calls = 0
    /\ tmp_files = {}
    /\ exception = None
    /\ llm_ok = TRUE
    /\ call \in {Some([fn |-> f]) : f \in AgentCalls}
    /\ ret = None
    /\ NoDashboard

\* What a call leaves in ret: how it ended ("returned" or "raised") and what
\* the environment did during it.
CallOutcome(raised, o) ==
    Some([outcome |-> IF raised THEN "raised" ELSE "returned", env |-> o])

\* TranscriptionAgent(...).process(state)
TranscriptionAgentCall ==
    /\ pc = "call"
    /\ call = Some([fn |-> "TranscriptionAgent.process"])
    /\ \E o \in TranscriptionOutcomes(content) :
          LET p == TranscriptionProcess(CurrentState, input_type, content,
                                        openai_client, o)
          IN  /\ SetState(p.state)
              /\ ext_calls' = p.calls
              /\ tmp_files' = p.files
              /\ ret' = CallOutcome(p.raised, o)
    /\ invocations' = [invocations EXCEPT !["transcription"] = @ + 1]
    /\ pc' = "called"
    /\ UNCHANGED <<config, dashboard, call, result, exception, llm_ok>>

\* SummarizationAgent(...).process(state); an exception that escapes leaves
\* the state as the method had it.
SummarizationAgentCall ==
    /\ pc = "call"
    /\ call = Some([fn |-> "SummarizationAgent.process"])
    /\ \E o \in SummaryOutcomes :
          LET p == SummarizationProcess(CurrentState, o)
          IN  /\ SetState(p.state)
              /\ ext_calls' = p.calls
              /\ ret' = CallOutcome(p.raised, o)
              /\ llm_ok' = (o.llm1 = "ok" /\ o.llm2 = "ok")
    /\ invocations' = [invocations EXCEPT !["summarization"] = @ + 1]
    /\ pc' = "called"
    /\ UNCHANGED <<config, dashboard, call, result, exception, tmp_files>>

\* QualityScoringAgent(...).process(state)
QualityScoringAgentCall ==
    /\ pc = "call"
    /\ call = Some([fn |-> "QualityScoringAgent.process"])
    /\ \E o \in QualityOutcomes :
          LET p == QualityProcess(CurrentState, o)
          IN  /\ SetState(p.state)
              /\ ext_calls' = p.calls
              /\ ret' = CallOutcome(p.raised, o)
              /\ llm_ok' = (QualityReplyAccepted(o.llm1)
                              /\ QualityReplyAccepted(o.llm2))
    /\ invocations' = [invocations EXCEPT !["quality_scoring"] = @ + 1]
    /\ pc' = "end"
    /\ UNCHANGED <<config, dashboard, call, result, exception, tmp_files>>

NextAgent ==
    \/ TranscriptionAgentCall
    \/ SummarizationAgentCall
    \/ QualityScoringAgentCall
    \/ ProcessCallReturn

AgentSpec == InitAgent /\ [][NextAgent]_vars

\* Each of the three scores of q lies in [1.0, 10.0].
ScoresInRange(q) ==
    \A s \in {q.tone_score, q.professionalism_score, q.resolution_score} :
        s >= ScoreMin /\ s <= ScoreMax

\* The quality-scoring agent has been called and the LLM reply it used had a
\* score outside [1.0, 10.0].
OutOfRangeReplyUsed ==
    /\ call = Some([fn |-> "QualityScoringAgent.process"])
    /\ ret # None
    /\ ext_calls >= 1
    /\ LET llm == ret[1].env.llm1
       IN  llm.kind = "json" /\ ~ScoresInRange(llm)

\* C14: whenever state.quality_score is set, and whenever the result carries
\* a quality score, its tone, professionalism and resolution scores all lie
\* in [1.0, 10.0]; the fixed fallback score included.  An LLM reply with an
\* out-of-range score is never attached.
C14_ScoresInRange ==
    /\ quality_score # None => ScoresInRange(quality_score[1])
    /\ (result # None /\ result[1].quality_score # None) =>
          ScoresInRange(result[1].quality_score[1])
    /\ (OutOfRangeReplyUsed /\ speakers = << >>) =>
          quality_score = Some(FallbackScore)

\* An out-of-range reply was received, and the fallback score is what the
\* state and the result carry.
C14_Witness ==
    /\ OutOfRangeReplyUsed
    /\ quality_score = Some(FallbackScore)
    /\ result # None
    /\ result[1].quality_score = Some(FallbackScore)

----------------------------------------------------------------------------
(* utils/helpers.py: parse_llm_json_response                               *)

MaxFeedbackEntries == 2     \* entries of a nested feedback object

\* A JSON value as json.loads builds it and json.dumps writes it: its Python
\* type, its text (the string itself for a str, the json.dumps output for
\* anything else but a mapping given by its entries) and, for a mapping
\* given by its entries, the entries in order.
JStr(s) == [type |-> "str", text |-> s, items |-> << >>]
JNum(s) == [type |-> "num", text |-> s, items |-> << >>]
JBool(s) == [type |-> "bool", text |-> s, items |-> << >>]
JNull == [type |-> "null", text |-> "null", items |-> << >>]
JList(s) == [type |-> "list", text |-> s, items |-> << >>]
JObject(s) == [type |-> "dict", text |-> s, items |-> << >>]
JDict(entries) == [type |-> "dict", text |-> "", items |-> entries]
Entry(k, v) == [key |-> k, value |-> v]

\* The entries a nested feedback object is built from, one of every JSON
\* type.
FeedbackEntries ==
    { Entry("tone", JStr("polite")),
      Entry("score", JNum("8")),
      Entry("resolved", JBool("true")),
      Entry("notes", JNull),
      Entry("next_steps", JList("[\"call back\"]")),
      Entry("detail", JObject("{\"wait\": \"long\"}")) }

\* The sequences over S of length at most n without a repeated element.
DistinctSeqs(S, n) ==
    {s \in SeqsUpTo(S, n) : \A i, j \in DOMAIN s : i # j => s[i] # s[j]}

\* The documents an LLM reply can carry.
JsonDocuments ==
    { JDict(<< >>), JList("[1, 2]"),
      JDict(<< Entry("summary", JStr("billing question")) >>),
      JDict(<< Entry("tone_score", JNum("8")),
               Entry("feedback", JStr("good call")) >>) }
    \cup
    { JDict(<< Entry("feedback", JDict(es)), Entry("tone_score", JNum("8")) >>) :
        es \in DistinctSeqs(FeedbackEntries, MaxFeedbackEntries) }

\* A reply is a sequence of pieces: white space, a ```json fence, a ```
\* fence, a single backtick, text that is not JSON, or a JSON document.
Piece(k, v) == [kind |-> k, value |-> v]
WS == Piece("ws", JNull)
FenceJson == Piece("fence_json", JNull)
Fence == Piece("fence", JNull)
Tick == Piece("backtick", JNull)
Text == Piece("text", JNull)
Doc(v) == Piece("json", v)

ReplyContents ==
    { << >>, << WS >>, << Text >>, << Fence >>,
      << FenceJson, Text, Fence >> }
    \cup UNION { { << Doc(v) >>,
                   << WS, Doc(v), WS >>,
                   << FenceJson, WS, Doc(v), WS, Fence >>,
                   << WS, Fence, Doc(v), Fence >>,
                   << Tick, Doc(v), Tick >>,
                   << Doc(v), WS, FenceJson >>,
                   << Text, Doc(v) >>,
                   << Doc(v), Doc(v) >> } : v \in JsonDocuments }

\* The fallback argument: absent, an empty mapping, a non-empty mapping.
Fallbacks ==
    { None, Some(JDict(<< >>)),
      Some(JDict(<< Entry("summary", JStr("fallback")) >>)) }

RECURSIVE strip(_)
\* str.strip()
strip(c) ==
    IF c = << >> THEN c
    ELSE IF Head(c) = WS THEN strip(Tail(c))
    ELSE IF c[Len(c)] = WS THEN strip(SubSeq(c, 1, Len(c) - 1))
    ELSE c

\* str.replace(piece, '')
remove(c, piece) == SelectSeq(c, LAMBDA x : x # piece)

\* str.replace('```', ''): what is left of a ```json fence is the text json.
remove_fences(c) ==
    [i \in DOMAIN remove(c, Fence) |->
        IF remove(c, Fence)[i] = FenceJson THEN Text
        ELSE remove(c, Fence)[i]]

\* The cleaning of lines 27-36.
clean(reply) ==
    LET c1 == strip(reply)
        c2 == IF c1 # << >> /\ Head(c1) = FenceJson
              THEN strip(remove(remove(c1, FenceJson), Fence))
              ELSE IF c1 # << >> /\ Head(c1) = Fence
              THEN strip(remove_fences(c1))
              ELSE c1
    IN  remove(remove_fences(c2), Tick)

\* json.loads: white space around one document is accepted, anything else
\* raises JSONDecodeError.
json_loads(c) ==
    LET d == strip(c)
    IN  IF Len(d) = 1 /\ d[1].kind = "json"
        THEN [raised |-> FALSE, value |-> d[1].value]
        ELSE [raised |-> TRUE, value |-> JNull]

\* str.title() on the keys of FeedbackEntries.
title(key) ==
    CASE key = "tone" -> "Tone"
      [] key = "score" -> "Score"
      [] key = "resolved" -> "Resolved"
      [] key = "notes" -> "Notes"
      [] key = "next_steps" -> "Next_Steps"
      [] key = "detail" -> "Detail"

\* json.dumps(value)
json_dumps(v) == v.text

RECURSIVE join(_)
\* " ".join(parts)
join(parts) ==
    IF parts = << >> THEN ""
    ELSE IF Len(parts) = 1 THEN parts[1]
    ELSE parts[1] \o " " \o join(Tail(parts))

RECURSIVE feedback_parts(_)
\* The loop of lines 47-51 over feedback_dict.items().
feedback_parts(entries) ==
    IF entries = << >> THEN << >>
    ELSE LET e == Head(entries)
             rest == feedback_parts(Tail(entries))
         IN  IF e.value.type = "str"
             THEN << title(e.key) \o ": " \o e.value.text >> \o rest
             ELSE IF e.value.type \in {"list", "dict"}
             THEN << title(e.key) \o ": " \o json_dumps(e.value) >> \o rest
             ELSE rest

\* Lines 42-52: a nested feedback object becomes one string.
flatten_feedback(parsed) ==
    IF parsed.type = "dict" /\ parsed.text = ""
    THEN JDict([i \in DOMAIN parsed.items |->
                  LET e == parsed.items[i]
                  IN  IF e.key = "feedback" /\ e.value.type = "dict"
                      THEN Entry("feedback",
                                 JStr(join(feedback_parts(e.value.items))))
                      ELSE e])
    ELSE parsed

\* bool(fallback): None and the empty mapping are falsy.
TruthyFallback(fallback) == fallback # None /\ fallback[1].items # << >>

\* parse_llm_json_response(content, fallback)
parse_llm_json_response(reply, fallback) ==
    IF reply = << >>
    THEN [raised |-> FALSE,
          value |-> IF TruthyFallback(fallback) THEN fallback[1]
                    ELSE JDict(<< >>)]
    ELSE LET r == json_loads(clean(reply))
         IN  IF ~r.raised
             THEN [raised |-> FALSE, value |-> flatten_feedback(r.value)]
             ELSE IF TruthyFallback(fallback)
             THEN [raised |-> FALSE, value |-> fallback[1]]
             ELSE [raised |-> TRUE, value |-> JNull]

\* Every variable of the AgentState that a call of a helper does not use.
StateIdle ==
    /\ transcript_text = None
    /\ speakers = << >>
    /\ summary = None
    /\ quality_score = None
    /\ errors = << >>
    /\ retry_counts = << >>

InitParse ==
    /\ RunIdle
    /\ StateIdle
    /\ NoDashboard
    /\ pc = "call"
    /\ call \in {Some([fn |-> "parse_llm_json_response", content |-> c,
                       fallback |-> f]) :
                    c \in ReplyContents, f \in Fallbacks}
    /\ ret = None

ParseCall ==
    /\ pc = "call"
    /\ LET r == parse_llm_json_response(call[1].content, call[1].fallback)
       IN  ret' = Some([outcome |-> IF r.raised THEN "raised" ELSE "returned",
                        value |-> r.value])
    /\ pc' = "called"
    /\ UNCHANGED <<config, dashboard, call, transcript_text, speakers,
                   summary, quality_score, errors, retry_counts, result,
                   invocations, ext_calls, tmp_files, exception, llm_ok>>

NextParse == ParseCall

ParseSpec == InitParse /\ [][NextParse]_vars

\* The content of the call under study cannot be parsed after cleaning.
Unparseable == json_loads(clean(call[1].content)).raised

\* C15: for every content that is not parseable as JSON after cleaning, the
\* empty content included, parse_llm_json_response returns the supplied
\* fallback mapping unchanged whenever a fallback was supplied, the empty
\* mapping included, and raises whenever no fallback was supplied.
C15_FallbackOrRaise ==
    (pc = "called" /\ Unparseable) =>
        IF call[1].fallback # None
        THEN ret = Some([outcome |-> "returned",
                         value |-> call[1].fallback[1]])
        ELSE ret[1].outcome = "raised"

----------------------------------------------------------------------------
(* utils/helpers.py: identify_likely_agent                                 *)

MaxSegments == 4        \* length of the speakers list

SpeakerLabels == {"Speaker 0", "Speaker 1", "Speaker 2"}

\* The segments of a speakers list; only the label matters to the helper.
SegmentsOf(labels) == {SpeakerSegment(l, "hi", 0, 10, 9) : l \in labels}

\* A dict as the sequence of its items in insertion order.
DictItem(k, v) == [key |-> k, value |-> v]

\* speaker_counts[key] = speaker_counts.get(key, 0) + 1
count_up(items, key) ==
    IF \E i \in DOMAIN items : items[i].key = key
    THEN [i \in DOMAIN items |->
            IF items[i].key = key
            THEN DictItem(key, items[i].value + 1)
            ELSE items[i]]
    ELSE Append(items, DictItem(key, 1))

RECURSIVE speaker_counts(_)
\* The loop of lines 143-145, the list taken from its first segment on.
speaker_counts(segments) ==
    IF segments = << >> THEN << >>
    ELSE count_up(speaker_counts(SubSeq(segments, 1, Len(segments) - 1)),
                  segments[Len(segments)].speaker)

\* max(items, key=...) keeping the last of the largest items.
max_by_value_last(items) ==
    LET best == CHOOSE i \in DOMAIN items :
                    /\ \A j \in DOMAIN items : items[j].value <= items[i].value
                    /\ \A j \in DOMAIN items :
                          items[j].value = items[i].value => j <= i
    IN  items[best]

\* max(items, key=lambda x: x[1]): the first of the largest items.
max_by_value(items) ==
    LET best == CHOOSE i \in DOMAIN items :
                    /\ \A j \in DOMAIN items : items[j].value <= items[i].value
                    /\ \A j \in DOMAIN items :
                          items[j].value = items[i].value => i <= j
    IN  items[best]

\* identify_likely_agent(speakers)
identify_likely_agent(segments) ==
    IF segments = << >> THEN None
    ELSE LET counts == speaker_counts(segments)
         IN  IF counts # << >> THEN Some(max_by_value(counts).key)
             ELSE None

InitIdentify ==
    /\ RunIdle
    /\ StateIdle
    /\ NoDashboard
    /\ pc = "call"
    /\ call \in {Some([fn |-> "identify_likely_agent", speakers |-> s]) :
                    s \in SeqsUpTo(SegmentsOf(SpeakerLabels), MaxSegments)}
    /\ ret = None

IdentifyCall ==
    /\ pc = "call"
    /\ ret' = Some([outcome |-> "returned",
                    value |-> identify_likely_agent(call[1].speakers)])
    /\ pc' = "called"
    /\ UNCHANGED <<config, dashboard, call, transcript_text, speakers,
                   summary, quality_score, errors, retry_counts, result,
                   invocations, ext_calls, tmp_files, exception, llm_ok>>

NextIdentify == IdentifyCall

IdentifySpec == InitIdentify /\ [][NextIdentify]_vars

\* The number of segments of s labelled l, and the place of the first one.
SegmentCount(s, l) == Cardinality({i \in DOMAIN s : s[i].speaker = l})
FirstSegment(s, l) == CHOOSE i \in DOMAIN s :
                          /\ s[i].speaker = l
                          /\ \A j \in 1 .. i - 1 : s[j].speaker # l

\* C16: for every non-empty list identify_likely_agent returns a speaker
\* label of the list whose number of segments is maximal and, among the
\* labels with that number, the one whose first segment comes first in the
\* list; for the empty list it returns no value.
C16_IdentifyLikelyAgent ==
    pc = "called" =>
        LET s == call[1].speakers
            v == ret[1].value
        IN  IF s = << >> THEN v = None
            ELSE /\ v # None
                 /\ \E i \in DOMAIN s : s[i].speaker = v[1]
                 /\ \A i \in DOMAIN s :
                       LET m == s[i].speaker
                       IN  /\ SegmentCount(s, m) <= SegmentCount(s, v[1])
                           /\ SegmentCount(s, m) = SegmentCount(s, v[1]) =>
                                 FirstSegment(s, v[1]) <= FirstSegment(s, m)

\* A tie between two labels, decided for the one that appears first although
\* the other one was counted up last.
C16_Witness ==
    /\ pc = "called"
    /\ Len(call[1].speakers) = 4
    /\ call[1].speakers[1].speaker = "Speaker 1"
    /\ call[1].speakers[4].speaker = "Speaker 0"
    /\ SegmentCount(call[1].speakers, "Speaker 0") = 2
    /\ SegmentCount(call[1].speakers, "Speaker 1") = 2
    /\ ret[1].value = Some("Speaker 1")

----------------------------------------------------------------------------
(* ui/streamlit_app.py: one dashboard session.  Every user event makes     *)
(* Streamlit run main once, from its first line, with the current widget   *)
(* values; st.session_state is what survives from one run to the next.     *)

MaxFileSize == 3        \* sizes of the uploaded files, in bytes

FileNames == {"call.mp3", "call.wav", "notes.txt"}
UploadedFiles == [name : FileNames, size : 1 .. MaxFileSize]

\* f"{uploaded_file.name}_{len(uploaded_file.getvalue())}"
file_id(f) == f.name \o "_" \o ToString(f.size)

\* The test of lines 433-437 on the extension of the name.
is_audio(f) == f.name \in {"call.mp3", "call.wav"}

\* How the processing of lines 425-595 can end: workflow.process_call
\* returns a result with one of the three statuses, something raises
\* ("error"), or the text file cannot be decoded ("undecodable").
ProcessOutcomes(f) ==
    {"success", "partial", "failed", "error"}
    \cup IF is_audio(f) THEN {} ELSE {"undecodable"}

\* The result stored in the session, with the upload it was produced from.
StoredResult(status, f) == [status |-> status, file |-> f]

\* Lines 394-410 with the stored result kept.
reset_ui_state_keeping_result(ss, up) ==
    IF up = None THEN ss
    ELSE [ss EXCEPT !.last_processed_file_id = Some(file_id(up[1]))]

\* Lines 394-410: the reset of the UI state when a different file is
\* uploaded.
reset_ui_state(ss, up) ==
    IF up = None THEN ss
    ELSE IF ss.last_processed_file_id # Some(file_id(up[1]))
    THEN [ss EXCEPT !.result = None,
                    !.last_processed_file_id = Some(file_id(up[1]))]
    ELSE ss

\* One run of main: what it leaves in st.session_state and the result it
\* renders in the results column.
main(keys, up, ss, process_button, outcome) ==
    IF ~keys
    THEN [session_state |-> ss, displayed |-> None]
    ELSE LET s1 == reset_ui_state(ss, up)
         IN  IF up # None /\ process_button /\ outcome = "undecodable"
             THEN [session_state |-> s1, displayed |-> None]
             ELSE LET s2 == IF up # None /\ process_button
                               /\ outcome # "error"
                            THEN [s1 EXCEPT !.result =
                                     Some(StoredResult(outcome, up[1]))]
                            ELSE s1
                  IN  [session_state |-> s2, displayed |-> s2.result]

RunMain(up, process_button, outcome) ==
    LET m == main(api_keys', up, session_state, process_button, outcome)
    IN  /\ session_state' = m.session_state
        /\ displayed' = m.displayed

\* Every variable of process_call and of a helper call.
pipeline == <<config, pc, transcript_text, speakers, summary, quality_score,
              errors, retry_counts, result, invocations, ext_calls,
              tmp_files, exception, llm_ok, call, ret>>

InitDashboard ==
    /\ RunIdle
    /\ StateIdle
    /\ NoHelperCall
    /\ pc = "dashboard"
    /\ api_keys \in BOOLEAN
    /\ uploaded_file = None
    /\ session_state = EmptySessionState
    /\ displayed = None
    /\ NoProcessing

\* The user puts a file into the uploader, which the last run rendered.
Upload ==
    /\ api_keys
    /\ \E f \in UploadedFiles :
          /\ uploaded_file' = Some(f)
          /\ api_keys' = api_keys
          /\ RunMain(Some(f), FALSE, "success")
    /\ UNCHANGED <<pipeline, processing>>

\* The user removes the file from the uploader.
Remove ==
    /\ api_keys
    /\ uploaded_file # None
    /\ uploaded_file' = None
    /\ api_keys' = api_keys
    /\ RunMain(None, FALSE, "success")
    /\ UNCHANGED <<pipeline, processing>>

\* The user clicks "Process Call".
Process ==
    /\ api_keys
    /\ uploaded_file # None
    /\ \E o \in ProcessOutcomes(uploaded_file[1]) :
          /\ api_keys' = api_keys
          /\ RunMain(uploaded_file, TRUE, o)
    /\ UNCHANGED <<pipeline, processing, uploaded_file>>

\* The user edits an API key; a run that returns before the uploader is
\* rendered may drop the uploader's value.
EditKeys ==
    /\ api_keys' \in BOOLEAN
    /\ uploaded_file' \in IF api_keys' THEN {uploaded_file}
                          ELSE {uploaded_file, None}
    /\ RunMain(uploaded_file', FALSE, "success")
    /\ UNCHANGED <<pipeline, processing>>

NextDashboard == Upload \/ Remove \/ Process \/ EditKeys

DashboardSpec == InitDashboard /\ [][NextDashboard]_vars

\* C17: in a dashboard session, whenever a stored result is displayed while
\* a file is uploaded, that result was produced by processing a file with
\* the fingerprint (name and size) of the uploaded file; and a run of main
\* that finds an uploaded file with another fingerprint than the stored
\* result's removes the stored result and renders none.
C17_NoStaleResult ==
    /\ []((displayed # None /\ uploaded_file # None) =>
             file_id(displayed[1].file) = file_id(uploaded_file[1]))
    /\ [][(/\ session_state.result # None
           /\ uploaded_file' # None
           /\ file_id(session_state.result[1].file)
                 # file_id(uploaded_file'[1]))
          => (session_state'.result = None /\ displayed' = None)]_vars

\* The result of processing the uploaded file is displayed.
C17_Witness ==
    /\ uploaded_file = Some([name |-> "notes.txt", size |-> 2])
    /\ displayed = Some(StoredResult("partial", uploaded_file[1]))
    /\ session_state.result = displayed

\* The value of key k in the mapping d, as a sequence of at most one value.
ValueAt(d, k) ==
    IF \E i \in DOMAIN d.items : d.items[i].key = k
    THEN << d.items[CHOOSE i \in DOMAIN d.items : d.items[i].key = k].value >>
    ELSE << >>

\* The parsed reply of the call under study has a feedback field that is a
\* nested object.
NestedFeedback ==
    /\ call[1].content # << >>
    /\ ~Unparseable
    /\ LET v == json_loads(clean(call[1].content)).value
       IN  /\ v.type = "dict"
           /\ ValueAt(v, "feedback") # << >>
           /\ ValueAt(v, "feedback")[1].type = "dict"

RECURSIVE AllParts(_)
\* One "Key: value" part for every entry, in order: the key title-cased, a
\* string verbatim and any other value as JSON.
AllParts(entries) ==
    IF entries = << >> THEN << >>
    ELSE LET e == Head(entries)
         IN  << title(e.key) \o ": " \o
                  (IF e.value.type = "str" THEN e.value.text
                   ELSE json_dumps(e.value)) >>
             \o AllParts(Tail(entries))

\* C18: when the parsed LLM reply has a feedback field that is a nested
\* object, parse_llm_json_response returns feedback as a single string with
\* one "Key: value" part for every entry of the object, in the object's
\* order, the key title-cased, string values verbatim and every non-string
\* value (number, boolean, null, list, object) serialized as JSON; no entry
\* is dropped.
C18_FeedbackFlattened ==
    (pc = "called" /\ NestedFeedback) =>
        LET v == json_loads(clean(call[1].content)).value
            nested == ValueAt(v, "feedback")[1]
        IN  /\ ret[1].outcome = "returned"
            /\ ValueAt(ret[1].value, "feedback")
                  = << JStr(join(AllParts(nested.items))) >>

\* What the environment record o of a transcription invocation means: the
\* Whisper fallback, run with the write outcome w and the call outcome fb,
\* fails; the diarization path fails.
FallbackFails(w, fb) == ~openai_client \/ w = "raise" \/ fb = "raise"
DiarizationFails(o) ==
    \/ o.w1 = "raise"
    \/ o.dg = "raise" /\ FallbackFails(o.w2, o.fb1)

\* A step that is one invocation of TranscriptionAgent.process on AUDIO
\* input.
AudioInvocation ==
    /\ pc = "call"
    /\ pc' = "called"
    /\ call = Some([fn |-> "TranscriptionAgent.process"])
    /\ input_type = AUDIO

\* C19: for AUDIO input, an invocation of process whose diarization path
\* fails appends exactly one "transcription" error; it appends one
\* "transcription_fallback" error after it exactly when a fallback provider
\* is configured and the fallback attempt fails too, and nothing else; when
\* both fail, transcript_text and speakers are left as they were and
\* process returns normally.
C19_TranscriptionErrors ==
    [][(AudioInvocation /\ DiarizationFails(ret'[1].env)) =>
         LET o == ret'[1].env
             both == openai_client /\ FallbackFails(o.w3, o.fb2)
             n == Len(errors)
         IN  /\ Len(errors') = n + (IF both THEN 2 ELSE 1)
             /\ SubSeq(errors', 1, n) = errors
             /\ errors'[n + 1].agent = "transcription"
             /\ both => /\ errors'[n + 2].agent = "transcription_fallback"
                        /\ transcript_text' = transcript_text
                        /\ speakers' = speakers
             /\ ret'[1].outcome = "returned"]_vars

\* Both attempts have failed on a state that already had a transcript,
\* speaker segments and an error of an earlier attempt.
C19_Witness ==
    /\ pc = "called"
    /\ call = Some([fn |-> "TranscriptionAgent.process"])
    /\ input_type = AUDIO
    /\ openai_client
    /\ ret[1].env.dg = "raise"
    /\ ret[1].env.fb2 = "raise"
    /\ Len(errors) = 3
    /\ errors[2].agent = "transcription"
    /\ errors[3].agent = "transcription_fallback"
    /\ transcript_text = Some("hello world")
    /\ speakers # << >>

\* C20: when the Deepgram call raises, a fallback provider is configured and
\* the fallback call succeeds, the invocation ends with transcript_text equal
\* to the fallback transcript and with speakers made of exactly one
\* synthesized segment that carries that transcript, labelled "Speaker 1",
\* from 0.0 s to 10.0 s, with confidence 0.9.
C20_FallbackSegment ==
    (/\ pc = "called"
     /\ call = Some([fn |-> "TranscriptionAgent.process"])
     /\ input_type = AUDIO
     /\ openai_client
     /\ ret[1].env.w1 = "ok"
     /\ ret[1].env.dg = "raise"
     /\ ~FallbackFails(ret[1].env.w2, ret[1].env.fb1))
    => /\ transcript_text = Some(ret[1].env.fb1)
       /\ speakers = << SpeakerSegment("Speaker 1", ret[1].env.fb1,
                                       0, 100, 9) >>

\* C21: one invocation of an agent's process issues at most one outbound
\* call to an external service, on every path through the invocation, the
\* fallback paths included.
C21_OneOutboundCall ==
    ext_calls <= 1

\* One LLM exchange of the summarization agent, of the quality-scoring
\* agent, in which the call raised or the reply failed schema validation.
SummaryReplyFailed(llm) == llm \in {"raise", "bad_schema"}
QualityReplyFailed(llm) ==
    llm.kind = "raise" \/ (llm.kind = "json" /\ ~ScoresInRange(llm))

\* The call under study is an invocation of the summarization agent, of the
\* quality-scoring agent, in which every path attempted (the speaker-aware
\* one if there are segments, and the plain-transcript one) failed that way.
EveryLLMPathFailed ==
    /\ call # None
    /\ ret # None
    /\ ext_calls >= 1
    /\ \/ /\ call[1].fn = "SummarizationAgent.process"
          /\ SummaryReplyFailed(ret[1].env.llm1)
          /\ speakers # << >> => SummaryReplyFailed(ret[1].env.llm2)
       \/ /\ call[1].fn = "QualityScoringAgent.process"
          /\ QualityReplyFailed(ret[1].env.llm1)
          /\ speakers # << >> => QualityReplyFailed(ret[1].env.llm2)

\* C22: when the LLM call raises or its reply fails schema validation on
\* every path attempted in an invocation of SummarizationAgent or of
\* QualityScoringAgent, the invocation appends an error under the agent's
\* name and leaves state.summary, respectively state.quality_score, unset.
C22_LLMFailureRecorded ==
    EveryLLMPathFailed =>
        LET a == IF call[1].fn = "SummarizationAgent.process"
                 THEN "summarization" ELSE "quality_scoring"
        IN  /\ \E i \in DOMAIN errors : errors[i].agent = a
            /\ summary = None
            /\ quality_score = None

\* A step that is one invocation of the summarization agent or of the
\* quality-scoring agent on a state without transcript text and without
\* speaker segments.
NoDataInvocation ==
    /\ pc = "call"
    /\ pc' # "call"
    /\ call[1].fn \in {"SummarizationAgent.process",
                       "QualityScoringAgent.process"}
    /\ ~TruthyText(transcript_text)
    /\ speakers = << >>

\* C23: when transcript_text is empty or absent and there are no speaker
\* segments, SummarizationAgent.process and QualityScoringAgent.process each
\* append exactly one error under their own agent name, issue no LLM call
\* and leave transcript_text, summary, quality_score and retry_counts as
\* they were.
C23_NoDataFrame ==
    [][NoDataInvocation =>
         LET a == IF call[1].fn = "SummarizationAgent.process"
                  THEN "summarization" ELSE "quality_scoring"
         IN  /\ Len(errors') = Len(errors) + 1
             /\ SubSeq(errors', 1, Len(errors)) = errors
             /\ errors'[Len(errors')].agent = a
             /\ ext_calls' = 0
             /\ ret'[1].outcome = "returned"
             /\ UNCHANGED <<transcript_text, speakers, summary,
                            quality_score, retry_counts>>]_vars

\* The quality-scoring agent has been invoked on an empty transcript, after
\* an error of the transcription.
C23_Witness ==
    /\ call = Some([fn |-> "QualityScoringAgent.process"])
    /\ pc = "end"
    /\ transcript_text = Some("")
    /\ speakers = << >>
    /\ Len(errors) = 2
    /\ errors[2].agent = "quality_scoring"
    /\ ext_calls = 0
    /\ quality_score = None

\* C24: retry budgets are per agent.  A routing decision for one agent
\* changes at most that agent's entry of retry_counts; it is a retry only if
\* there is an error record under that agent's own name (in workflow.py:
\* more of them than retries made), whatever is recorded under other names,
\* "transcription_fallback" included; and whatever happened to the
\* transcription, summarization and quality_scoring are first invoked with
\* their retry counters at 0, their whole budget left.
C24_PerAgentBudget ==
    /\ [][\A a \in Agents :
            pc = "route_" \o a =>
              /\ DOMAIN retry_counts' \subseteq DOMAIN retry_counts \cup {a}
              /\ \A b \in DOMAIN retry_counts \ {a} :
                    /\ b \in DOMAIN retry_counts'
                    /\ retry_counts'[b] = retry_counts[b]]_vars
    /\ [][\A a \in Agents :
            (pc = "route_" \o a /\ pc' = a) =>
              Cardinality({i \in DOMAIN errors : errors[i].agent = a}) >
                 IF variant = "workflow" THEN DictGet(retry_counts, a)
                 ELSE 0]_vars
    /\ [](\A a \in {"summarization", "quality_scoring"} :
            invocations[a] = 0 => DictGet(retry_counts, a) = 0)

\* The transcription has used both of its retries and recorded errors under
\* two names, and the summarization has then used both of its own.
C24_Witness ==
    /\ variant = "workflow"
    /\ DictGet(retry_counts, "transcription") = 2
    /\ DictGet(retry_counts, "summarization") = 2
    /\ \E i \in DOMAIN errors : errors[i].agent = "transcription_fallback"
    /\ errors[Len(errors)].agent = "summarization"

----------------------------------------------------------------------------
(* ui/streamlit_app.py, lines 481-595: the processing of one click on      *)
(* "Process Call".  The main thread starts a background thread that runs   *)
(* workflow.process_call, polls it through three progress phases, waits    *)
(* for it, and then stores the result or shows the error.  Each read of    *)
(* thread.is_alive() or of result_container by the main thread and each    *)
(* step of the background thread is one action.                            *)

PollRounds == 8         \* for i in range(8)

\* Every variable of process_call and of a helper call but the position.
untouched == <<config, transcript_text, speakers, summary, quality_score,
               errors, retry_counts, result, invocations, ext_calls,
               tmp_files, exception, llm_ok, call, ret>>

\* What process_workflow can leave in the container: the result of
\* process_call with one of its statuses, or the exception it raised.
ThreadOutcomes == {"success", "partial", "failed", "error"}

\* thread.is_alive()
is_alive == thread_pc \in {"running", "written"}

\* Where main goes on after the polling loop of a phase: the test of line
\* 509, the test of line 532, the wait of line 548.
AfterPolling(phase) ==
    IF phase = 1 THEN "gate1" ELSE IF phase = 2 THEN "gate2" ELSE "wait"

InitThread ==
    /\ RunIdle
    /\ StateIdle
    /\ NoHelperCall
    /\ NoProcessing
    /\ pc = "process_clicked"
    /\ api_keys = TRUE
    /\ uploaded_file \in {Some(f) : f \in UploadedFiles}
    /\ session_state \in
          { [result |-> r,
             last_processed_file_id |-> Some(file_id(uploaded_file[1]))] :
              r \in {None, Some(StoredResult("failed", uploaded_file[1]))} }
    /\ displayed = None

\* Lines 483-493: the container is created and the thread started.
StartThread ==
    /\ pc = "process_clicked"
    /\ result_container' = EmptyContainer
    /\ thread_pc' = "running"
    /\ poll' = [phase |-> 1, i |-> 0]
    /\ pc' = "poll_alive"
    /\ UNCHANGED <<untouched, api_keys, uploaded_file, session_state,
                   displayed, container_writes, surfaced_error>>

\* process_workflow, line 487 or 489: the one assignment to the container.
ThreadWrite ==
    /\ thread_pc = "running"
    /\ \E o \in ThreadOutcomes :
          result_container' =
             IF o = "error"
             THEN [result_container EXCEPT !.error = Some("Exception")]
             ELSE [result_container EXCEPT
                      !.result = Some(StoredResult(o, uploaded_file[1]))]
    /\ container_writes' = container_writes + 1
    /\ thread_pc' = "written"
    /\ UNCHANGED <<untouched, pc, api_keys, uploaded_file, session_state,
                   displayed, poll, surfaced_error>>

\* process_workflow returns and the thread ends.
ThreadExit ==
    /\ thread_pc = "written"
    /\ thread_pc' = "finished"
    /\ UNCHANGED <<untouched, pc, api_keys, uploaded_file, session_state,
                   displayed, result_container, container_writes, poll,
                   surfaced_error>>

\* The head of a polling loop and its test of thread.is_alive()
\* (lines 497-500, 516-519, 538-540).
PollAlive ==
    /\ pc = "poll_alive"
    /\ IF poll.i < PollRounds /\ is_alive
       THEN pc' = "poll_error" /\ poll' = poll
       ELSE pc' = AfterPolling(poll.phase) /\ poll' = poll
    /\ UNCHANGED <<untouched, api_keys, uploaded_file, session_state,
                   displayed, thread_pc, result_container, container_writes,
                   surfaced_error>>

\* After the sleep, the test of result_container["error"]
\* (lines 501-503, 520-522, 541-543).
PollError ==
    /\ pc = "poll_error"
    /\ IF result_container.error # None
       THEN pc' = AfterPolling(poll.phase) /\ poll' = poll
       ELSE pc' = "poll_alive" /\ poll' = [poll EXCEPT !.i = @ + 1]
    /\ UNCHANGED <<untouched, api_keys, uploaded_file, session_state,
                   displayed, thread_pc, result_container, container_writes,
                   surfaced_error>>

\* The tests of thread.is_alive() of line 509 and of line 532: a thread
\* that is alive opens the second, the third progress phase.
Gate ==
    /\ pc \in {"gate1", "gate2"}
    /\ IF is_alive
       THEN /\ pc' = "poll_alive"
            /\ poll' = [phase |-> IF pc = "gate1" THEN 2 ELSE 3, i |-> 0]
       ELSE /\ pc' = IF pc = "gate1" THEN "gate2" ELSE "wait"
            /\ poll' = poll
    /\ UNCHANGED <<untouched, api_keys, uploaded_file, session_state,
                   displayed, thread_pc, result_container, container_writes,
                   surfaced_error>>

\* Lines 548-549 left out: main goes on whether the thread runs or not.
WaitForThread_not_waiting ==
    /\ pc = "wait"
    /\ pc' = "finish"
    /\ UNCHANGED <<untouched, dashboard>>

\* Lines 548-549: while thread.is_alive(): time.sleep(0.1)
WaitForThread ==
    /\ pc = "wait"
    /\ ~is_alive
    /\ pc' = "finish"
    /\ UNCHANGED <<untouched, dashboard>>

\* Lines 585-595 and 597-602: the error is raised and shown, or the result
\* is stored in the session; the results column renders what is stored.
Finish ==
    /\ pc = "finish"
    /\ IF result_container.error # None
       THEN /\ surfaced_error' = result_container.error
            /\ session_state' = session_state
       ELSE /\ surfaced_error' = surfaced_error
            /\ session_state' =
                  [session_state EXCEPT !.result = result_container.result]
    /\ displayed' = session_state'.result
    /\ pc' = "rendered"
    /\ UNCHANGED <<untouched, api_keys, uploaded_file, thread_pc,
                   result_container, container_writes, poll>>

NextThread ==
    \/ StartThread
    \/ ThreadWrite
    \/ ThreadExit
    \/ PollAlive
    \/ PollError
    \/ Gate
    \/ WaitForThread
    \/ Finish

ThreadSpec == InitThread /\ [][NextThread]_vars

\* C25: in every interleaving of the dashboard's main thread and its
\* background thread, the shared container is written exactly once by the
\* background thread, with either the result or the error and never both;
\* the main thread stores the result in the session or shows the error only
\* after the background thread has finished, and what it stores or shows is
\* the value the background thread wrote.
C25_ThreadHandOff ==
    /\ [](container_writes <= 1)
    /\ [](thread_pc = "finished" =>
            /\ container_writes = 1
            /\ (result_container.result = None)
                  # (result_container.error = None))
    /\ [][(pc = "finish" /\ pc' = "rendered") =>
            /\ thread_pc = "finished"
            /\ IF result_container.error # None
               THEN /\ surfaced_error' = result_container.error
                    /\ session_state' = session_state
               ELSE /\ session_state'.result = result_container.result
                    /\ session_state'.result # None
                    /\ surfaced_error' = None]_vars

\* The thread finished during the second progress phase, and main has
\* stored its result over the result of an earlier run.
C25_Witness ==
    /\ pc = "rendered"
    /\ poll.phase = 2
    /\ poll.i >= 1
    /\ thread_pc = "finished"
    /\ session_state.result = result_container.result
    /\ session_state.result[1].status = "success"
    /\ displayed = session_state.result

----------------------------------------------------------------------------
(* The run of process_call under the assumption that it is not suspended   *)
(* for ever: every agent invocation returns or raises, and the graph       *)
(* engine takes the next step.                                             *)

FairSpec == Spec /\ WF_vars(Next)

\* The number of agent invocations so far.
TotalInvocations ==
    invocations["transcription"] + invocations["summarization"]
       + invocations["quality_scoring"]

\* process_call is over: it has returned, or an exception has left it.
Terminated == pc \in {"returned", "escaped"}

\* The largest number of retries either orchestrator grants an agent.
RetryCap ==
    IF cfg_max_retries > DEFAULT_MAX_RETRIES THEN cfg_max_retries
    ELSE DEFAULT_MAX_RETRIES

\* How far a position is from the end of process_call.
Distance(p) ==
    CASE p = "transcription" -> 8
      [] p = "route_transcription" -> 7
      [] p = "summarization" -> 6
      [] p = "route_summarization" -> 5
      [] p = "quality_scoring" -> 4
      [] p = "route_quality_scoring" -> 3
      [] p = "end" -> 2
      [] p = "raised" -> 1
      [] OTHER -> 0

\* The retries still open to the agents, each counted twice, plus the
\* distance of the position: a retry gives up two to go back by one.
Rank ==
    Distance(pc)
      + 2 * ((RetryCap - DictGet(retry_counts, "transcription"))
             + (RetryCap - DictGet(retry_counts, "summarization"))
             + (RetryCap - DictGet(retry_counts, "quality_scoring")))

\* C26: every run of process_call comes to its end, whatever the outcomes
\* of the agent invocations are: each step of the run lowers Rank, which is
\* never negative, and a run that is not over always has a next step, so
\* that a run that is not suspended for ever ends; no retry loop goes on
\* for ever.  With max_retries at its value of 2 no agent is invoked more
\* than max_retries + 1 times and the run makes at most
\* 3 * (max_retries + 1) = 9 agent invocations.
C26_Terminates ==
    /\ [][Rank' < Rank]_vars
    /\ [](Rank >= 0)
    /\ [](Terminated \/ ENABLED Next)
    /\ [](cfg_max_retries <= DEFAULT_MAX_RETRIES =>
             /\ \A a \in Agents : invocations[a] <= DEFAULT_MAX_RETRIES + 1
             /\ TotalInvocations <= 3 * (DEFAULT_MAX_RETRIES + 1))

\* A finished run in which every agent was invoked three times.
C26_Witness ==
    /\ Terminated
    /\ cfg_max_retries = DEFAULT_MAX_RETRIES
    /\ TotalInvocations = 3 * (DEFAULT_MAX_RETRIES + 1)


\* C27: in every result process_call returns, a quality score is present
\* only together with a summary, so that no result has a quality score and
\* no summary, and the status is "failed" exactly when the summary is
\* absent.
C27_QualityImpliesSummary ==
    result # None =>
        /\ result[1].quality_score # None => result[1].summary # None
        /\ ~(result[1].status = "partial" /\ result[1].quality_score # None
               /\ result[1].summary = None)
        /\ result[1].status = "failed" <=> result[1].summary = None

\* A returned result that carries a quality score, and with it a summary.
C27_Witness ==
    /\ pc = "returned"
    /\ result # None
    /\ result[1].quality_score # None
    /\ result[1].summary # None
    /\ result[1].status # "failed"


\* C28: a run of process_call that returns the status "success" had no
\* retry: every retry counter is 0 or absent and each of the three agents
\* was invoked exactly once.
C28_SuccessWithoutRetry ==
    (result # None /\ result[1].status = "success") =>
        \A a \in Agents :
            /\ DictGet(retry_counts, a) = 0
            /\ invocations[a] = 1

\* A run that returned "success".
C28_Witness ==
    /\ pc = "returned"
    /\ result # None
    /\ result[1].status = "success"
    /\ invocations["quality_scoring"] = 1


\* C29: in workflow.py, after every routing decision and for each of the
\* three agents, the number of error records of the agent is at least its
\* retry counter and at most the counter plus one; and a returned result
\* holds at most max_retries + 1 error records of any one agent.
C29_ErrorsTrackRetries ==
    /\ [][(variant = "workflow"
             /\ pc \in {"route_" \o a : a \in Agents}
             /\ pc' \in GraphPositions)
          => \A a \in Agents :
                LET n == Cardinality({i \in DOMAIN errors' :
                                        errors'[i].agent = a})
                IN  /\ DictGet(retry_counts', a) <= n
                    /\ n <= DictGet(retry_counts', a) + 1]_vars
    /\ []((variant = "workflow" /\ result # None)
          => \A a \in Agents :
                Cardinality({i \in DOMAIN result[1].errors :
                               result[1].errors[i].agent = a})
                  <= DEFAULT_MAX_RETRIES + 1)

\* A run of workflow.py returned after an agent used up its retries: the
\* result holds max_retries + 1 error records of that agent.
C29_Witness ==
    /\ variant = "workflow"
    /\ pc = "returned"
    /\ result # None
    /\ \E a \in Agents :
          /\ DictGet(retry_counts, a) = DEFAULT_MAX_RETRIES
          /\ Cardinality({i \in DOMAIN result[1].errors :
                            result[1].errors[i].agent = a})
               = DEFAULT_MAX_RETRIES + 1


\* The place of an agent in the pipeline.
StageOrder(a) ==
    CASE a = "transcription" -> 1
      [] a = "summarization" -> 2
      [] a = "quality_scoring" -> 3

\* C30: within one run of process_call the stages are visited in a fixed
\* forward order: the first invocation is transcription, transcription is
\* not invoked once summarization has been invoked, summarization is not
\* invoked once quality_scoring has been invoked, and a routing decision
\* sends the run to a later stage or back into the same agent, never to an
\* earlier one.
C30_ForwardOrder ==
    /\ [][\A a \in Agents :
            invocations'[a] # invocations[a] =>
                /\ a # "transcription" => invocations["transcription"] >= 1
                /\ \A b \in Agents :
                      StageOrder(b) > StageOrder(a) => invocations[b] = 0]_vars
    /\ [][\A a \in Agents :
            (pc = "route_" \o a /\ pc' \in Agents) =>
                \/ pc' = a /\ DictGet(retry_counts', a)
                                = DictGet(retry_counts, a) + 1
                \/ StageOrder(pc') > StageOrder(a)]_vars
    /\ [](TotalInvocations = 0 => pc \in {"transcription", "raised",
                                          "returned", "escaped"})

\* Summarization was entered again on a retry and the run went on to
\* quality_scoring.
C30_Witness ==
    /\ invocations["transcription"] = 1
    /\ invocations["summarization"] >= 2
    /\ invocations["quality_scoring"] >= 1

====
